---- MODULE Spec2Model ----
(***************************************************************************)
(* Model of the bank account ledger of src/main.py: the Database singleton *)
(* (one per process, backed by database.json) and BankAccount sessions     *)
(* (login / create / deposit), run by threads of one or two processes.     *)
(***************************************************************************)
EXTENDS Integers, Sequences, FiniteSets, TLC

(***************************************************************************)
(* Bounds of the model.                                                    *)
(***************************************************************************)
\* number of calls (login / create / deposit) started over all threads
MaxCalls == 3
\* last second of the wall clock
MaxClock == 1

(***************************************************************************)
(* Python values.                                                          *)
(***************************************************************************)
\* Python's None, as held by a BankAccount before login (main.py:85-90)
None == "<None>"

\* an int / float value, float("nan"), and a value that is no int or float
Num(n) == [t |-> "num", v |-> n]
NaN == [t |-> "nan", v |-> 0]
NotANumber == [t |-> "str", v |-> 0]

\* isinstance(value, (int, float)) (main.py:231)
IsIntOrFloat(x) == x.t \in {"num", "nan"}

\* value <= 0 (main.py:233): every comparison with nan is False
LeZero(x) == x.t = "num" /\ x.v <= 0

\* self.__balance += value (main.py:238): nan is absorbing
Add(a, b) == IF a.t = "nan" \/ b.t = "nan" THEN NaN ELSE Num(a.v + b.v)

(***************************************************************************)
(* Inputs: identifiers, passwords (as sequences of characters), amounts,   *)
(* random digits of the account number.                                    *)
(***************************************************************************)
AccountIds == {"alice", "bob"}
IdOrder == <<"alice", "bob">>

Upper == {"A", "P", "S"}
Digit == {"0", "1"}
Symbol == {"!", "@", "#", "$", "%", "^", "&", "*", "(", ")", "_", "+", "=", "[",
           "{", "]", "}", ";", ":", "<", ">", "|", ".", "/", "?", ",", "-"}
NonAscii == {"U+00E4"}

PwStrong == <<"S", "t", "r", "0", "n", "g", "!", "P", "w">>
PwWeak == <<"w", "e", "a", "k">>
PwNoDigit == <<"S", "t", "r", "o", "n", "g", "!", "P", "w">>
PwNoUpper == <<"s", "t", "r", "0", "n", "g", "!", "p", "w">>
PwNoSymbol == <<"S", "t", "r", "0", "n", "g", "1", "P", "w">>
PwShort == <<"S", "0", "!", "P", "w", "a", "b">>
PwNonAscii == <<"P", "U+00E4", "s", "s", "w", "0", "r", "d", "!">>
Passwords == {PwStrong, PwWeak, PwNoDigit, PwNoUpper, PwNoSymbol, PwShort, PwNonAscii}

Amounts == {Num(-1), Num(0), Num(1), Num(2), NaN, NotANumber}

\* the issuer prefix (main.py:201); the 16 random digits are drawn from RandomDigits
Prefix == "7810106666"
RandomDigits == {"0", "1"}

(***************************************************************************)
(* BankAccount.is_password_validated and secrets.compare_digest.           *)
(***************************************************************************)
\* the lookahead (?=.*[class]) tried at position i: "." matches no newline
Lookahead(p, i, class) ==
    \E j \in i..Len(p) : p[j] \in class /\ \A k \in i..(j - 1) : p[k] # "\n"

\* re.search(PATTERN, password1) (main.py:154, 161)
PatternSearch(p) ==
    \E i \in 1..(Len(p) + 1) :
        /\ Lookahead(p, i, Upper)
        /\ Lookahead(p, i, Digit)
        /\ Lookahead(p, i, Symbol)

\* is_password_validated(password1) with password2 None (main.py:157-165)
\* (variant that checks the length only, then the checks as the code has them)
PasswordPolicyLengthOnly(p) == Len(p) > 7
PasswordPolicy(p) == Len(p) > 7 /\ PatternSearch(p)

\* secrets.compare_digest raises TypeError on a str that is not ASCII
IsAscii(p) == \A i \in 1..Len(p) : p[i] \notin NonAscii
CompareRaises(a, b) == ~IsAscii(a) \/ ~IsAscii(b)
CompareDigest(a, b) == a = b

(***************************************************************************)
(* Processes, sessions (BankAccount objects) and threads.  Process 1 holds *)
(* sessions 1 and 2, process 2 holds session 3.  Thread 1 calls session 1, *)
(* thread 2 calls session 1 or 2, thread 3 (process 2) calls session 3.    *)
(***************************************************************************)
Procs == {1, 2}
Sessions == {1, 2, 3}
Threads == {1, 2, 3}
ProcOf(s) == IF s = 3 THEN 2 ELSE 1
SessionsOf(t) == CASE t = 1 -> {1} [] t = 2 -> {1, 2} [] OTHER -> {3}

VARIABLES
    file,   \* database.json: [st: "json" | "invalid", map: id -> record, len]
    db,     \* per process, the Database singleton: [st, data: id -> object]
    heap,   \* the dict objects of the account records, by reference
    sess,   \* the BankAccount objects
    th,     \* per thread: position in its call, locals, outcome of the last call
    now,    \* wall clock, in seconds
    calls   \* number of calls started

vars == <<file, db, heap, sess, th, now, calls>>

\* the empty mapping {}
EmptyMap == [id \in {} |-> None]

\* datetime.now().strftime("%d.%m.%Y %H:%M:%S"), the clock counted in seconds
Strftime(t) == <<"%d.%m.%Y %H:%M:%S", t>>

\* dict.get(key, default)
Get(rec, key, default) == IF key \in DOMAIN rec THEN rec[key] ELSE default

(***************************************************************************)
(* Database (main.py:24-76).                                               *)
(***************************************************************************)
\* json.dump(data, database_file): the records by value, as they are now
Dump(data) == [id \in DOMAIN data |-> heap[data[id]]]

\* the length of the text json.dump writes
ValueLen(b) == IF b.t = "nan" THEN 3 ELSE IF b.v < 10 THEN 1 ELSE 2
RecordLen(rec) ==
    157 + Len(rec["password"]) + ValueLen(rec["balance"])
        + (IF "modified" \in DOMAIN rec THEN 35 ELSE 0)
KeyLen(id) == IF id = "alice" THEN 5 ELSE 3
RECURSIVE EntriesLen(_, _)
EntriesLen(map, ids) ==
    IF ids = {} THEN 0
    ELSE LET id == CHOOSE i \in ids : TRUE
         IN KeyLen(id) + 4 + RecordLen(map[id]) + (IF ids = {id} THEN 0 ELSE 2)
              + EntriesLen(map, ids \ {id})
TextLen(map) == 2 + EntriesLen(map, DOMAIN map)

\* the file after a complete json.dump of map, and after open(path, "w")
JsonFile(map) == [st |-> "json", map |-> map, len |-> TextLen(map)]
InvalidFile(n) == [st |-> "invalid", map |-> EmptyMap, len |-> n]

\* json.load(database): one fresh dict object per record
LoadOrder(map) == SelectSeq(IdOrder, LAMBDA id : id \in DOMAIN map)
LoadObjects(map) == [k \in 1..Len(LoadOrder(map)) |-> map[LoadOrder(map)[k]]]
LoadData(map, base) ==
    [id \in DOMAIN map |->
        base + (CHOOSE k \in 1..Len(LoadOrder(map)) : LoadOrder(map)[k] = id)]

\* Database.get_data / __enter__ of process p
get_data(p) == db[p].data

\* Database.get_accounts_ids
get_accounts_ids(p) == DOMAIN db[p].data

\* Database.get_accounts_numbers: reads the key "Account number"
get_accounts_numbers(p) ==
    {Get(heap[db[p].data[id]], "Account number", None) : id \in DOMAIN db[p].data}

\* a record as create writes it (main.py:210-218)
NewAccount(password, account_number, created) ==
    [password |-> password, balance |-> Num(0), account_number |-> account_number,
     first_name |-> "", last_name |-> "", ssn |-> "", created |-> created]

\* the fields update_database assigns to the record in place (main.py:104-109)
\* variant that leaves the balance out, then the assignments as the code has them
UpdatedAccountNoBalance(account, b, modified) ==
    [f \in DOMAIN account \cup {"modified"} |->
        CASE f = "first_name" -> b.first_name
          [] f = "last_name" -> b.last_name
          [] f = "account_number" -> b.account_number
          [] f = "ssn" -> b.ssn
          [] f = "modified" -> modified
          [] OTHER -> account[f]]
UpdatedAccount(account, b, modified) ==
    [f \in DOMAIN account \cup {"modified"} |->
        CASE f = "balance" -> b.balance
          [] f = "first_name" -> b.first_name
          [] f = "last_name" -> b.last_name
          [] f = "account_number" -> b.account_number
          [] f = "ssn" -> b.ssn
          [] f = "modified" -> modified
          [] OTHER -> account[f]]

(***************************************************************************)
(* Initial state: the file holds a snapshot written by earlier runs,       *)
(* process 1 has loaded it and constructed its sessions (main.py:80-97);   *)
(* process 2 has not started.                                              *)
(***************************************************************************)
InitAlice == NewAccount(PwStrong, Prefix \o "0", Strftime(0))
InitBob == NewAccount(PwStrong, Prefix \o "1", Strftime(0))
InitMaps ==
    {EmptyMap,
     [id \in {"alice"} |-> InitAlice],
     [id \in {"alice", "bob"} |-> IF id = "alice" THEN InitAlice ELSE InitBob]}

\* BankAccount.__init__ (main.py:80-97)
NewSession ==
    [account_id |-> None, balance |-> Num(0), first_name |-> None, last_name |-> None,
     ssn |-> None, account_number |-> None, created |-> None, modified |-> None,
     is_logged |-> FALSE, lock |-> 0, constructed |-> FALSE]

\* a thread between calls.  base, clean and ovl are history variables of a
\* deposit in progress: the durable balance when it started, whether it started
\* with no other deposit on its account in progress and the store in step with
\* the file, and <<base, amount>> of the one deposit that overlapped it and
\* returned; par tells that a deposit to another account returned meanwhile;
\* pref is the file as it was when the save_data of the call opened it
IdleThread ==
    [pc |-> "idle", op |-> "none", s |-> 0, id |-> None, pw |-> <<>>, acct |-> 0,
     num |-> None, val |-> Num(0), pre |-> Num(0), result |-> "none",
     base |-> Num(0), clean |-> FALSE, ovl |-> <<>>, par |-> FALSE,
     pref |-> [st |-> "invalid", map |-> [id \in {} |-> "<None>"], len |-> 0]]

Init ==
    /\ \E map \in InitMaps :
        /\ heap = LoadObjects(map)
        /\ file = JsonFile(map)
        /\ db = [p \in Procs |->
                    IF p = 1 THEN [st |-> "ready", data |-> LoadData(map, 0)]
                    ELSE [st |-> "none", data |-> EmptyMap]]
    /\ sess = [s \in Sessions |-> [NewSession EXCEPT !.constructed = (ProcOf(s) = 1)]]
    /\ th = [t \in Threads |-> IdleThread]
    /\ now = 0
    /\ calls = 0

(***************************************************************************)
(* Steps of a thread.  A thread that is idle starts a call; a call ends    *)
(* by returning ("ok") or by raising, which is recorded in result.         *)
(***************************************************************************)
\* the call of thread t ends with outcome res; its locals are dropped
Finish(t, res) ==
    [IdleThread EXCEPT !.op = th[t].op, !.s = th[t].s, !.id = th[t].id, !.result = res]

\* thread t starts operation op on session s
Begin(t, op, s) == [IdleThread EXCEPT !.op = op, !.s = s]

CanStart(t, s) ==
    /\ th[t].pc = "idle"
    /\ s \in SessionsOf(t)
    /\ sess[s].constructed
    /\ calls < MaxCalls

\* BankAccount() in process 2: the first Database() loads the file (main.py:33-57, 94)
Construct(s) ==
    /\ ~sess[s].constructed
    /\ db[ProcOf(s)].st = "none"
    /\ IF file.st = "json"
       THEN /\ db' = [db EXCEPT ![ProcOf(s)] =
                        [st |-> "ready", data |-> LoadData(file.map, Len(heap))]]
            /\ heap' = heap \o LoadObjects(file.map)
            /\ sess' = [sess EXCEPT ![s].constructed = TRUE]
       ELSE \* json.load raises; _instance stays set, without _data
            /\ db' = [db EXCEPT ![ProcOf(s)].st = "nodata"]
            /\ UNCHANGED <<heap, sess>>
    /\ UNCHANGED <<file, th, now, calls>>

\* BankAccount() again after a failed load: Database() returns the instance as it is
ConstructAgain(s) ==
    /\ ~sess[s].constructed
    /\ db[ProcOf(s)].st = "nodata"
    /\ sess' = [sess EXCEPT ![s].constructed = TRUE]
    /\ UNCHANGED <<file, db, heap, th, now, calls>>

(***************************************************************************)
(* BankAccount.login (main.py:124-149).                                    *)
(***************************************************************************)
\* the fields login assigns once the password matched (main.py:139-145)
\* variant without line 145, then the assignments as the code has them
HydrateNoFlag(b, account_id, account) ==
    [b EXCEPT !.account_id = account_id,
              !.first_name = account["first_name"],
              !.last_name = account["last_name"],
              !.ssn = account["ssn"],
              !.balance = account["balance"],
              !.account_number = account["account_number"]]
Hydrate(b, account_id, account) ==
    [b EXCEPT !.account_id = account_id,
              !.first_name = account["first_name"],
              !.last_name = account["last_name"],
              !.ssn = account["ssn"],
              !.balance = account["balance"],
              !.account_number = account["account_number"],
              !.is_logged = TRUE]

\* lines 126-131: look the identifier up in the store
LoginLookup(t, s, account_id) ==
    /\ CanStart(t, s)
    /\ calls' = calls + 1
    /\ th' = [th EXCEPT ![t] =
                IF db[ProcOf(s)].st # "ready"
                THEN [Begin(t, "login", s) EXCEPT
                        !.id = account_id, !.result = "AttributeError"]
                ELSE IF account_id \notin DOMAIN get_data(ProcOf(s))
                THEN [Begin(t, "login", s) EXCEPT
                        !.id = account_id, !.result = "AccountNotFound"]
                ELSE [Begin(t, "login", s) EXCEPT
                        !.pc = "login_getpass", !.id = account_id,
                        !.acct = get_data(ProcOf(s))[account_id]]]
    /\ UNCHANGED <<file, db, heap, sess, now>>

\* the outcome of lines 134-145 for the password typed
LoginOutcome(stored, password) ==
    IF CompareRaises(stored, password) THEN "TypeError"
    ELSE IF ~CompareDigest(stored, password) THEN "InvalidPassword"
    ELSE "ok"

\* the session after lines 134-145: hydrated only when the password matched
\* (variant that assigns before the comparison, then the code's order)
LoginEarlyAssign(b, res, account_id, account) == Hydrate(b, account_id, account)
LoginEffect(b, res, account_id, account) ==
    IF res = "ok" THEN Hydrate(b, account_id, account) ELSE b

\* lines 134-145: read the password, compare, hydrate
LoginGetpass(t, password) ==
    /\ th[t].pc = "login_getpass"
    /\ LET s == th[t].s
           account == heap[th[t].acct]
           res == LoginOutcome(account["password"], password)
       IN /\ th' = [u \in Threads |->
                        IF u = t THEN Finish(t, res)
                        ELSE IF res = "ok" /\ th[u].s = s /\ th[u].pc # "idle"
                        THEN [th[u] EXCEPT !.ovl = <<"many">>]  \* history
                        ELSE th[u]]
          /\ sess' = [sess EXCEPT ![s] = LoginEffect(sess[s], res, th[t].id, account)]
    /\ UNCHANGED <<file, db, heap, now, calls>>

(***************************************************************************)
(* Database.save_data (main.py:73-76), in two steps: open(path, "w")       *)
(* truncates the file, json.dump and the close write the text.  Either can *)
(* raise OSError.  The with-block of deposit releases the lock on the way  *)
(* out (main.py:237).                                                      *)
(***************************************************************************)
\* (variant that keeps the lock, then the release as the with-block does it)
ReleaseNever(t) == sess
Release(t) ==
    IF th[t].op = "deposit" THEN [sess EXCEPT ![th[t].s].lock = 0] ELSE sess

\* thread u is inside a deposit on the account thread t is depositing to
Overlaps(t, u) ==
    /\ u # t
    /\ th[t].op = "deposit" /\ th[t].pc # "idle"
    /\ th[u].op = "deposit" /\ th[u].pc # "idle"
    /\ sess[th[u].s].account_id = sess[th[t].s].account_id

\* history: the deposit of t returns (ok) or raises while u is inside its own
Overlapped(t, u, ok) ==
    IF ok /\ th[u].ovl = <<>> /\ th[t].ovl = <<>> /\ th[t].clean # th[u].clean
    THEN <<IF th[t].clean THEN th[t].base ELSE th[u].base, th[t].val>>
    ELSE <<"many">>

\* history: thread u is inside a deposit to another account than the one
\* thread t is depositing to
Beside(t, u) ==
    /\ u # t
    /\ th[t].op = "deposit" /\ th[t].pc # "idle"
    /\ th[u].op = "deposit" /\ th[u].pc # "idle"
    /\ sess[th[u].s].account_id # sess[th[t].s].account_id

\* the call of t ends with outcome res
Return(t, res) ==
    [u \in Threads |->
        IF u = t THEN Finish(t, res)
        ELSE IF Overlaps(t, u) THEN [th[u] EXCEPT !.ovl = Overlapped(t, u, res = "ok")]
        ELSE IF Beside(t, u) /\ res = "ok" THEN [th[u] EXCEPT !.par = TRUE]
        ELSE th[u]]

\* the file after text of map is written at offset 0 over what is there
Written(map) ==
    IF TextLen(map) >= file.len THEN JsonFile(map) ELSE InvalidFile(file.len)

SaveOpen(t) ==
    /\ th[t].pc = "save_open"
    /\ file' = InvalidFile(0)
    /\ th' = [th EXCEPT ![t].pc = "save_write", ![t].pref = file]  \* pref: history
    /\ UNCHANGED <<db, heap, sess, now, calls>>

SaveOpenFails(t) ==
    /\ th[t].pc = "save_open"
    /\ th' = Return(t, "OSError")
    /\ sess' = Release(t)
    /\ UNCHANGED <<file, db, heap, now, calls>>

SaveWrite(t) ==
    /\ th[t].pc = "save_write"
    /\ file' = Written(Dump(get_data(ProcOf(th[t].s))))
    /\ th' = Return(t, "ok")
    /\ sess' = Release(t)
    /\ UNCHANGED <<db, heap, now, calls>>

SaveWriteFails(t) ==
    /\ th[t].pc = "save_write"
    /\ th' = Return(t, "OSError")
    /\ sess' = Release(t)
    /\ UNCHANGED <<file, db, heap, now, calls>>

(***************************************************************************)
(* BankAccount.create (main.py:174-225).                                   *)
(***************************************************************************)
\* lines 176-177
CreateStart(t, s) ==
    /\ CanStart(t, s)
    /\ calls' = calls + 1
    /\ th' = [th EXCEPT ![t] =
                IF sess[s].is_logged
                THEN [Begin(t, "create", s) EXCEPT !.result = "AccountAlreadyLogged"]
                ELSE [Begin(t, "create", s) EXCEPT !.pc = "create_input"]]
    /\ UNCHANGED <<file, db, heap, sess, now>>

\* the outcome of lines 182-184 for the identifier typed
\* (variant without the membership test, then the check as the code has it)
CreateCheckIdSkipped(p, account_id) ==
    IF db[p].st # "ready" THEN "AttributeError" ELSE "ok"
CreateCheckId(p, account_id) ==
    IF db[p].st # "ready" THEN "AttributeError"
    ELSE IF account_id \in get_accounts_ids(p) THEN "AccountAlreadyExists"
    ELSE "ok"

\* lines 179-184: read the identifier, check it against the store
CreateInput(t, account_id) ==
    /\ th[t].pc = "create_input"
    /\ LET res == CreateCheckId(ProcOf(th[t].s), account_id)
       IN th' = [th EXCEPT ![t] =
                    IF res = "ok"
                    THEN [th[t] EXCEPT !.pc = "create_password", !.id = account_id]
                    ELSE Finish(t, res)]
    /\ UNCHANGED <<file, db, heap, sess, now, calls>>

\* lines 187-189: prompt until the password fulfils the policy
CreatePassword(t, password) ==
    /\ th[t].pc = "create_password"
    /\ th' = [th EXCEPT ![t] =
                IF PasswordPolicy(password)
                THEN [th[t] EXCEPT !.pc = "create_repeat", !.pw = password]
                ELSE th[t]]
    /\ UNCHANGED <<file, db, heap, sess, now, calls>>

\* lines 190-192: prompt until the repeated password is the same
CreateRepeat(t, password_again) ==
    /\ th[t].pc = "create_repeat"
    /\ th' = [th EXCEPT ![t] =
                IF CompareRaises(th[t].pw, password_again)
                THEN Finish(t, "TypeError")
                ELSE IF CompareDigest(th[t].pw, password_again)
                THEN [th[t] EXCEPT !.pc = "create_number"]
                ELSE th[t]]
    /\ UNCHANGED <<file, db, heap, sess, now, calls>>

\* lines 195-203: one draw of the loop; a number found in the store is drawn again
CreateNumber(t, digits) ==
    /\ th[t].pc = "create_number"
    /\ LET account_number == Prefix \o digits
       IN th' = [th EXCEPT ![t] =
                    IF account_number \in get_accounts_numbers(ProcOf(th[t].s))
                    THEN th[t]
                    ELSE [th[t] EXCEPT !.pc = "create_insert", !.num = account_number]]
    /\ UNCHANGED <<file, db, heap, sess, now, calls>>

\* lines 210-223: build the record and put it into the store's mapping
CreateInsert(t) ==
    /\ th[t].pc = "create_insert"
    /\ \E time \in now..MaxClock :
        /\ now' = time
        /\ heap' = Append(heap, NewAccount(th[t].pw, th[t].num, Strftime(time)))
    /\ LET p == ProcOf(th[t].s)
           data == get_data(p)
       IN db' = [db EXCEPT ![p].data =
                    [id \in DOMAIN data \cup {th[t].id} |->
                        IF id = th[t].id THEN Len(heap) + 1 ELSE data[id]]]
    /\ th' = [u \in Threads |->
                IF u = t THEN [th[t] EXCEPT !.pc = "save_open", !.acct = Len(heap) + 1]
                ELSE IF /\ th[u].op = "deposit" /\ th[u].pc # "idle"
                        /\ sess[th[u].s].account_id = th[t].id
                THEN [th[u] EXCEPT !.ovl = <<"many">>]  \* history
                ELSE th[u]]
    /\ UNCHANGED <<file, sess, calls>>

(***************************************************************************)
(* BankAccount.deposit (main.py:227-239) and update_database (99-110).     *)
(***************************************************************************)
\* the outcome of the checks of lines 229-234
\* (variants: type check first; only value < 0 refused; then the code's checks)
DepositCheckTypeFirst(b, value) ==
    IF ~IsIntOrFloat(value) THEN "TypeError"
    ELSE IF ~b.is_logged THEN "AccountNotLogged"
    ELSE IF LeZero(value) THEN "ValueError"
    ELSE "ok"
DepositCheckNegativeOnly(b, value) ==
    IF ~b.is_logged THEN "AccountNotLogged"
    ELSE IF ~IsIntOrFloat(value) THEN "TypeError"
    ELSE IF value.t = "num" /\ value.v < 0 THEN "ValueError"
    ELSE "ok"
DepositCheck(b, value) ==
    IF ~b.is_logged THEN "AccountNotLogged"
    ELSE IF ~IsIntOrFloat(value) THEN "TypeError"
    ELSE IF LeZero(value) THEN "ValueError"
    ELSE "ok"

\* history: the durable balance of account id, when file and store agree on it
InStep(p, id) ==
    /\ file.st = "json" /\ id \in DOMAIN file.map
    /\ id \in DOMAIN get_data(p)
    /\ file.map[id]["balance"] = heap[get_data(p)[id]]["balance"]

StartsClean(t, s) ==
    /\ InStep(ProcOf(s), sess[s].account_id)
    /\ \A u \in Threads \ {t} :
          ~(/\ th[u].op = "deposit" /\ th[u].pc # "idle"
            /\ sess[th[u].s].account_id = sess[s].account_id)

DepositStart(t, s, value) ==
    /\ CanStart(t, s)
    /\ calls' = calls + 1
    /\ LET res == DepositCheck(sess[s], value)
       IN th' = [th EXCEPT ![t] =
                    IF res = "ok"
                    THEN [Begin(t, "deposit", s) EXCEPT
                            !.pc = "deposit_lock", !.val = value,
                            !.clean = StartsClean(t, s),
                            !.base = IF StartsClean(t, s)
                                     THEN file.map[sess[s].account_id]["balance"]
                                     ELSE Num(0)]
                    ELSE [Begin(t, "deposit", s) EXCEPT !.result = res]]
    /\ UNCHANGED <<file, db, heap, sess, now>>

\* lines 237-238: take the session's lock, add the value to the balance
DepositLock(t) ==
    /\ th[t].pc = "deposit_lock"
    /\ sess[th[t].s].lock = 0
    /\ sess' = [sess EXCEPT ![th[t].s].lock = t,
                            ![th[t].s].balance = Add(@, th[t].val)]
    /\ th' = [th EXCEPT ![t].pc = "deposit_update", ![t].pre = sess[th[t].s].balance]
    /\ UNCHANGED <<file, db, heap, now, calls>>

\* update_database, lines 101-109: assign the session's fields to the record
DepositUpdate(t) ==
    /\ th[t].pc = "deposit_update"
    /\ LET b == sess[th[t].s]
           account == get_data(ProcOf(th[t].s))[b.account_id]
       IN \E time \in now..MaxClock :
            /\ now' = time
            /\ heap' = [heap EXCEPT ![account] = UpdatedAccount(@, b, Strftime(time))]
    /\ th' = [th EXCEPT ![t].pc = "save_open"]
    /\ UNCHANGED <<file, db, sess, calls>>

\* one step of thread t
Step(t) ==
    \/ \E s \in Sessions, id \in AccountIds : LoginLookup(t, s, id)
    \/ \E pw \in Passwords : LoginGetpass(t, pw)
    \/ \E s \in Sessions : CreateStart(t, s)
    \/ \E id \in AccountIds : CreateInput(t, id)
    \/ \E pw \in Passwords : CreatePassword(t, pw)
    \/ \E pw \in Passwords : CreateRepeat(t, pw)
    \/ \E digits \in RandomDigits : CreateNumber(t, digits)
    \/ CreateInsert(t)
    \/ \E s \in Sessions, v \in Amounts : DepositStart(t, s, v)
    \/ DepositLock(t)
    \/ DepositUpdate(t)
    \/ SaveOpen(t)
    \/ SaveOpenFails(t)
    \/ SaveWrite(t)
    \/ SaveWriteFails(t)

(***************************************************************************)
(* Spec: the two threads of process 1 over its two sessions.               *)
(* SpecProcs: thread 1 of process 1 and thread 3 of process 2, which       *)
(* starts (and loads the file) at any time.                                *)
(***************************************************************************)
Next == \E t \in {1, 2} : Step(t)

Spec == Init /\ [][Next]_vars

NextProcs ==
    \/ \E s \in Sessions : Construct(s)
    \/ \E s \in Sessions : ConstructAgain(s)
    \/ \E t \in {1, 3} : Step(t)

SpecProcs == Init /\ [][NextProcs]_vars

(***************************************************************************)
(* SpecLogged: as Spec, from the state in which session 1 has logged in to *)
(* "alice" (a state Spec reaches with one login call).                     *)
(***************************************************************************)
InitLogged ==
    /\ \E map \in InitMaps :
        /\ "alice" \in DOMAIN map
        /\ heap = LoadObjects(map)
        /\ file = JsonFile(map)
        /\ db = [p \in Procs |->
                    IF p = 1 THEN [st |-> "ready", data |-> LoadData(map, 0)]
                    ELSE [st |-> "none", data |-> EmptyMap]]
        /\ sess = [s \in Sessions |->
                    IF s = 1
                    THEN Hydrate([NewSession EXCEPT !.constructed = TRUE], "alice",
                                 map["alice"])
                    ELSE [NewSession EXCEPT !.constructed = (ProcOf(s) = 1)]]
    /\ th = [t \in Threads |->
                IF t = 1
                THEN [IdleThread EXCEPT !.op = "login", !.s = 1, !.result = "ok"]
                ELSE IdleThread]
    /\ now = 0
    /\ calls = 0

SpecLogged == InitLogged /\ [][Next]_vars

\* the steps of a deposit that wait for no input: taking the lock when it is
\* free, update_database, and the two steps of save_data (which return or raise)
Run(t) ==
    \/ DepositLock(t)
    \/ DepositUpdate(t)
    \/ SaveOpen(t) \/ SaveOpenFails(t)
    \/ SaveWrite(t) \/ SaveWriteFails(t)

\* SpecLoggedFair: as SpecLogged, where a thread that can run such a step is
\* scheduled in the end
SpecLoggedFair ==
    InitLogged /\ [][Next]_vars /\ \A t \in {1, 2} : WF_vars(Run(t))

\* SpecProcsLogged: as SpecProcs, from the state in which session 1 has logged in
SpecProcsLogged == InitLogged /\ [][NextProcs]_vars

(***************************************************************************)
(* SpecSeq: one thread of process 1 makes the calls one after another, on  *)
(* either session; no two calls overlap.                                   *)
(***************************************************************************)
NextSeq == Step(2)

SpecSeq == Init /\ [][NextSeq]_vars

\* SpecSeqLogged: as SpecSeq, from the state in which session 1 has logged in
SpecSeqLogged == InitLogged /\ [][NextSeq]_vars

(***************************************************************************)
(* Properties.                                                             *)
(***************************************************************************)
\* an int or float amount greater than zero that is a number
Positive(x) == x.t = "num" /\ x.v > 0

\* thread t ends a call in this step
Ends(t) == th'[t] # th[t] /\ th'[t].pc = "idle"

\* C1: two deposits of positive amounts a and b that overlap on one account
\* (from one session or from two) have both taken effect once both returned:
\* when the second returns, the durable balance of the account is the balance
\* before the two calls plus a plus b.
C1_NoLostUpdate ==
    [][\A t \in Threads :
        (/\ th[t].op = "deposit" /\ th[t].pc = "save_write"
         /\ th'[t].pc = "idle" /\ th'[t].result = "ok"
         /\ Len(th[t].ovl) = 2
         /\ th[t].ovl[1].t = "num" /\ Positive(th[t].ovl[2]) /\ Positive(th[t].val)
         /\ \A u \in Threads : ~Overlaps(t, u))
        => LET id == sess[th[t].s].account_id
           IN /\ file'.st = "json"
              /\ id \in DOMAIN file'.map
              /\ file'.map[id]["balance"] = Add(Add(th[t].ovl[1], th[t].ovl[2]), th[t].val)
      ]_vars

\* C2: no two records of the ledger, in the file or in a process's store,
\* share an account number.
C2_UniqueAccountNumbers ==
    /\ file.st = "json" =>
          \A a, b \in DOMAIN file.map :
              a # b => file.map[a]["account_number"] # file.map[b]["account_number"]
    /\ \A p \in Procs : \A a, b \in DOMAIN get_data(p) :
          a # b => heap[get_data(p)[a]]["account_number"]
                     # heap[get_data(p)[b]]["account_number"]

\* the session thread t is calling, or called last
SessionOf(t) == th'[t].s

\* C3 as stated: on a session that is not logged in, a create that succeeds
\* leaves the session logged in, and a create or login that fails leaves it
\* not logged in.
C3_CreateAuthenticates ==
    [][\A t \in Threads :
        (Ends(t) /\ th'[t].op \in {"create", "login"} /\ ~sess[SessionOf(t)].is_logged)
        => /\ (th'[t].op = "create" /\ th'[t].result = "ok")
                => sess'[SessionOf(t)].is_logged
           /\ th'[t].result # "ok" => ~sess'[SessionOf(t)].is_logged
      ]_vars

\* C3 amended: on a session that is not logged in, a create that succeeds
\* leaves the session not logged in (only a login that succeeds sets
\* is_logged), and a create or login that fails leaves it not logged in.
C3_CreateLeavesUnauthenticated ==
    [][\A t \in Threads :
        (/\ Ends(t) /\ ~sess[SessionOf(t)].is_logged
         /\ \/ th'[t].op = "create"
            \/ th'[t].op = "login" /\ th'[t].result # "ok")
        => ~sess'[SessionOf(t)].is_logged
      ]_vars

\* a create returned on a session that is still not logged in, and a login failed
C3_Witness ==
    \E t, u \in Threads :
        /\ th[t].pc = "idle" /\ th[t].op = "create" /\ th[t].result = "ok"
        /\ ~sess[th[t].s].is_logged
        /\ th[u].pc = "idle" /\ th[u].op = "login" /\ th[u].result = "InvalidPassword"
        /\ ~sess[th[u].s].is_logged

\* the identifier is a key of the ledger: of the store's mapping or of the file
IsLedgerKey(p, id) ==
    \/ id \in DOMAIN get_data(p)
    \/ file.st = "json" /\ id \in DOMAIN file.map

\* C4: create with an identifier that is already a key of the ledger fails
\* with AccountAlreadyExists at the existence check, before any password is
\* read, and leaves the file and the store's mapping and records as they were.
C4_DuplicateCreateRejected ==
    [][\A t \in Threads, id \in AccountIds :
        (/\ CreateInput(t, id)
         /\ db[ProcOf(th[t].s)].st = "ready"
         /\ IsLedgerKey(ProcOf(th[t].s), id))
        => /\ th'[t].pc = "idle"
           /\ th'[t].result = "AccountAlreadyExists"
           /\ UNCHANGED <<file, db, heap>>
      ]_vars

C4_Witness ==
    \E t \in Threads :
        /\ th[t].pc = "idle" /\ th[t].op = "create"
        /\ th[t].result = "AccountAlreadyExists"
        /\ IsLedgerKey(ProcOf(th[t].s), "alice")

\* C5: deposit on a session that never logged in fails with AccountNotLogged
\* whatever the amount, the session's balance stays 0 and nothing is written.
C5_DepositNeedsLogin ==
    [][\A t \in Threads, s \in Sessions, v \in Amounts :
        (DepositStart(t, s, v) /\ ~sess[s].is_logged)
        => /\ th'[t].pc = "idle"
           /\ th'[t].result = "AccountNotLogged"
           /\ sess'[s].balance = Num(0)
           /\ UNCHANGED <<file, db, heap, sess>>
      ]_vars

C5_Witness ==
    \E t \in Threads :
        /\ th[t].pc = "idle" /\ th[t].op = "deposit"
        /\ th[t].result = "AccountNotLogged"
        /\ ~sess[th[t].s].is_logged /\ sess[th[t].s].balance = Num(0)

\* C6: deposit of an amount <= 0 on a logged-in session fails with the
\* invalid-amount error (ValueError); the session (its balance and its lock),
\* the store and the file are left as they were.
C6_NonPositiveRejected ==
    [][\A t \in Threads, s \in Sessions, v \in Amounts :
        (DepositStart(t, s, v) /\ sess[s].is_logged /\ v.t = "num" /\ v.v <= 0)
        => /\ th'[t].pc = "idle"
           /\ th'[t].result = "ValueError"
           /\ UNCHANGED <<file, db, heap, sess>>
      ]_vars

C6_Witness ==
    \E t \in Threads :
        /\ th[t].pc = "idle" /\ th[t].op = "deposit" /\ th[t].result = "ValueError"
        /\ sess[th[t].s].is_logged /\ sess[th[t].s].lock = 0

\* C7: with calls made one after another, when a create returns normally, a
\* login on the created identifier with the same password, run at once on
\* the creating session, succeeds: the identifier is found, the password
\* matches, and the session is hydrated with balance 0 and is logged in.
C7_CreateThenLogin ==
    [][\A t \in Threads :
        (/\ th[t].op = "create" /\ th[t].pc = "save_write"
         /\ Ends(t) /\ th'[t].result = "ok")
        => LET data == db'[ProcOf(th[t].s)].data
               b == sess'[th[t].s]
           IN /\ th[t].id \in DOMAIN data
              /\ LoginOutcome(heap'[data[th[t].id]]["password"], th[t].pw) = "ok"
              /\ LoginEffect(b, "ok", th[t].id, heap'[data[th[t].id]]).balance = Num(0)
              /\ LoginEffect(b, "ok", th[t].id, heap'[data[th[t].id]]).is_logged
      ]_vars

\* a create returned normally on a session that is not logged in, and the
\* store holds the created identifier with the password typed and balance 0
C7_Witness ==
    \E t \in Threads :
        /\ th[t].pc = "idle" /\ th[t].op = "create" /\ th[t].result = "ok"
        /\ ~sess[th[t].s].is_logged
        /\ th[t].id \in DOMAIN get_data(ProcOf(th[t].s))
        /\ heap[get_data(ProcOf(th[t].s))[th[t].id]]["password"] = PwStrong
        /\ heap[get_data(ProcOf(th[t].s))[th[t].id]]["balance"] = Num(0)

\* C8: a login on a session that is not logged in fails with AccountNotFound
\* when the identifier is not in the ledger, decided before a password is
\* read, and with InvalidPassword when the password typed differs from the
\* stored one; either way the session, the store and the file are unchanged.
C8_LoginFailure ==
    [][\A t \in Threads :
        /\ \A s \in Sessions, id \in AccountIds :
              (/\ LoginLookup(t, s, id) /\ ~sess[s].is_logged
               /\ db[ProcOf(s)].st = "ready" /\ ~IsLedgerKey(ProcOf(s), id))
              => /\ th'[t].pc = "idle" /\ th'[t].result = "AccountNotFound"
                 /\ UNCHANGED <<file, db, heap, sess>>
        /\ \A pw \in Passwords :
              (/\ LoginGetpass(t, pw) /\ ~sess[th[t].s].is_logged
               /\ pw # heap[th[t].acct]["password"])
              => /\ th'[t].pc = "idle" /\ th'[t].result = "InvalidPassword"
                 /\ UNCHANGED <<file, db, heap, sess>>
      ]_vars

\* no other call touched the session or the account of the deposit of thread t
\* while it ran (no login on its session, no deposit to or create of its
\* account), and no other session is logged in to that account
Alone(t) ==
    /\ th[t].ovl = <<>>
    /\ \A u \in Threads \ {t} : th[u].pc # "idle" => th[u].s # th[t].s
    /\ \A u \in Threads : ~Overlaps(t, u)
    /\ \A s \in Sessions \ {th[t].s} :
          ~(sess[s].is_logged /\ sess[s].account_id = sess[th[t].s].account_id)

\* C9: when a deposit of an amount > 0 returns on a session that alone works
\* on its account, the session's balance, the balance of the account in the
\* file, and the balance a store loaded anew from the file reads, all equal
\* the balance before the call plus the amount.
C9_DepositPersists ==
    [][\A t \in Threads :
        (/\ th[t].op = "deposit" /\ th[t].pc = "save_write"
         /\ Ends(t) /\ th'[t].result = "ok"
         /\ Positive(th[t].val) /\ Alone(t))
        => LET id == sess[th[t].s].account_id
               after == Add(th[t].pre, th[t].val)
           IN /\ sess'[th[t].s].balance = after
              /\ file'.st = "json"
              /\ id \in DOMAIN file'.map
              /\ file'.map[id]["balance"] = after
              /\ LoadObjects(file'.map)[LoadData(file'.map, 0)[id]]["balance"] = after
      ]_vars

C9_Witness ==
    \E t \in Threads :
        /\ th[t].pc = "idle" /\ th[t].op = "deposit" /\ th[t].result = "ok"
        /\ \A u \in Threads \ {t} : th[u].op = "none"
        /\ file.st = "json"
        /\ sess[th[t].s].account_id \in DOMAIN file.map
        /\ sess[th[t].s].balance = Num(2)
        /\ file.map[sess[th[t].s].account_id]["balance"] = Num(2)

\* C10: when save_data raises during a deposit, the increment is rolled back:
\* the session's balance is its balance before the call, and the record of
\* the account in the store's mapping is as the file has it.
C10_RollbackOnFailure ==
    [][\A t \in Threads :
        (/\ th[t].op = "deposit" /\ th[t].pc \in {"save_open", "save_write"}
         /\ Ends(t) /\ th'[t].result = "OSError" /\ Alone(t))
        => LET id == sess[th[t].s].account_id
               account == heap'[db'[ProcOf(th[t].s)].data[id]]
           IN /\ sess'[th[t].s].balance = th[t].pre
              /\ account["balance"] = th[t].pre
              /\ (file'.st = "json" /\ id \in DOMAIN file'.map)
                    => file'.map[id]["balance"] = sess'[th[t].s].balance
      ]_vars

\* C11: replacing the snapshot is atomic: a process that loads the file at any
\* time, also while a save_data of another process is between its open and
\* the end of its write, reads a complete snapshot: its json.load never fails
\* on an empty or partial text.
C11_AtomicReplace ==
    \A p \in Procs : db[p].st # "nodata"

\* C12: two deposits of positive amounts to two different accounts that
\* overlap, from sessions of one process or of two, have both taken effect
\* once both returned: when the second returns, the file holds for each of
\* the two accounts the balance its session holds (its balance before the
\* deposit plus the amount).
C12_BothDepositsPersist ==
    [][\A t, u \in Threads :
        (/\ th[t].op = "deposit" /\ th[t].pc = "save_write"
         /\ Ends(t) /\ th'[t].result = "ok"
         /\ Positive(th[t].val) /\ th[t].par /\ th[t].ovl = <<>>
         /\ u # t /\ th[u].pc = "idle" /\ th[u].op = "deposit" /\ th[u].result = "ok"
         /\ sess[th[u].s].account_id # sess[th[t].s].account_id)
        => LET a == sess[th[t].s].account_id
               b == sess[th[u].s].account_id
           IN /\ file'.st = "json"
              /\ a \in DOMAIN file'.map /\ b \in DOMAIN file'.map
              /\ file'.map[a]["balance"] = Add(th[t].pre, th[t].val)
              /\ file'.map[b]["balance"] = sess[th[u].s].balance
      ]_vars

\* C13: every record of the ledger, in a store or in the file, has a password
\* of at least 8 characters with an upper-case letter, a digit and a symbol of
\* the punctuation set; create goes on from the confirmation prompt only with
\* a confirmation equal to the password, and the record it inserts holds
\* that password.
C13_StoredPasswordsConform ==
    [][LET Conforms(p) ==
               /\ Len(p) >= 8
               /\ \E i \in 1..Len(p) : p[i] \in Upper
               /\ \E i \in 1..Len(p) : p[i] \in Digit
               /\ \E i \in 1..Len(p) : p[i] \in Symbol
       IN /\ \A k \in 1..Len(heap') : Conforms(heap'[k]["password"])
          /\ file'.st = "json" =>
                \A id \in DOMAIN file'.map : Conforms(file'.map[id]["password"])
          /\ \A t \in Threads, again \in Passwords :
                (CreateRepeat(t, again) /\ th'[t].pc = "create_number")
                => again = th[t].pw
          /\ \A t \in Threads :
                CreateInsert(t) => heap'[th'[t].acct]["password"] = th[t].pw
      ]_vars

\* a create has inserted its record, with the password that passed the policy
C13_Witness ==
    \E t \in Threads :
        /\ th[t].op = "create" /\ th[t].pc = "save_open"
        /\ th[t].id \in DOMAIN get_data(ProcOf(th[t].s))
        /\ get_data(ProcOf(th[t].s))[th[t].id] = th[t].acct
        /\ heap[th[t].acct]["password"] = PwStrong

\* C14: in every reachable state the balance of every record of the ledger
\* (in a store, in the file) and the balance of every session is a number
\* that is >= 0.
C14_BalancesNonNegative ==
    LET NonNegative(x) == x.t = "num" /\ x.v >= 0
    IN /\ \A k \in 1..Len(heap) : NonNegative(heap[k]["balance"])
       /\ file.st = "json" =>
             \A id \in DOMAIN file.map : NonNegative(file.map[id]["balance"])
       /\ \A s \in Sessions : NonNegative(sess[s].balance)

\* C15: once an identifier has a record in the ledger, the created stamp of
\* its record is the same in every later state: no step changes it, in a
\* store's mapping or in the file.
C15_CreatedNeverChanges ==
    [][/\ \A p \in Procs : \A id \in DOMAIN get_data(p) :
            /\ id \in DOMAIN db'[p].data
            /\ heap'[db'[p].data[id]]["created"] = heap[get_data(p)[id]]["created"]
       /\ (file.st = "json" /\ file'.st = "json") =>
            \A id \in DOMAIN file.map :
                /\ id \in DOMAIN file'.map
                /\ file'.map[id]["created"] = file.map[id]["created"]
      ]_vars

\* thread t is inside the section of deposit guarded by the lock: past the
\* increment, before the end of the write
InSection(t) ==
    th[t].op = "deposit" /\ th[t].pc \in {"deposit_update", "save_open", "save_write"}

\* C16: at no time are two threads, on two sessions logged in to the same
\* account, both inside the locked section of deposit.
C16_MutualExclusionPerAccount ==
    \A t, u \in Threads :
        (/\ t # u /\ InSection(t) /\ InSection(u)
         /\ th[t].s # th[u].s)
        => sess[th[t].s].account_id # sess[th[u].s].account_id

\* C17: the lock of a session is held only by a thread that is inside deposit
\* on that session, so it is free whenever the deposit has returned or raised
\* (also when save_data failed); and a deposit that waits for the lock of its
\* session gets it in the end.
C17_LockReleased ==
    /\ [](\A s \in Sessions :
            sess[s].lock # 0 =>
                InSection(sess[s].lock) /\ th[sess[s].lock].s = s)
    /\ \A t \in Threads :
            (th[t].pc = "deposit_lock") ~> (th[t].pc = "deposit_update")

\* a deposit raised OSError out of save_data, and a later deposit on the same
\* session holds the lock
C17_Witness ==
    \E t, u \in Threads :
        /\ t # u
        /\ th[t].pc = "idle" /\ th[t].op = "deposit" /\ th[t].result = "OSError"
        /\ th[u].op = "deposit" /\ th[u].pc = "deposit_update" /\ th[u].s = th[t].s
        /\ sess[th[u].s].lock = u

\* C18: a login called on a session that is logged in is rejected at once
\* (AccountAlreadyLogged), and no step changes the account identifier, the
\* account number or the profile fields of a session that is logged in, or
\* logs it out.
C18_LoginNeedsFreshSession ==
    [][/\ \A t \in Threads, s \in Sessions, id \in AccountIds :
            (LoginLookup(t, s, id) /\ sess[s].is_logged)
            => th'[t].pc = "idle" /\ th'[t].result = "AccountAlreadyLogged"
       /\ \A s \in Sessions :
            sess[s].is_logged
            => /\ sess'[s].is_logged
               /\ sess'[s].account_id = sess[s].account_id
               /\ sess'[s].account_number = sess[s].account_number
               /\ sess'[s].first_name = sess[s].first_name
               /\ sess'[s].last_name = sess[s].last_name
               /\ sess'[s].ssn = sess[s].ssn
      ]_vars

\* C19: a create never puts its record in the place of a record that is in
\* the ledger already (the identifier is no key of the store's mapping when
\* the record is inserted), and of two creates of one identifier that overlap
\* at most one returns normally (no two creates of one identifier return
\* normally at all).
C19_CreateNeverReplaces ==
    [][/\ \A t \in Threads :
            CreateInsert(t) => th[t].id \notin DOMAIN get_data(ProcOf(th[t].s))
       /\ \A t, u \in Threads :
            (/\ t # u /\ Ends(t) /\ th'[t].op = "create" /\ th'[t].result = "ok"
             /\ th[u].pc = "idle" /\ th[u].op = "create" /\ th[u].result = "ok")
            => th'[t].id # th[u].id
      ]_vars

\* C20: with calls made one after another, a deposit that returns normally
\* changes in the file only the balance and the modified stamp of the record
\* of the session's own account: the file it leaves holds every other record,
\* and the password, account number, created stamp and profile fields of its
\* own record, as the file held them when the deposit opened it.
C20_DepositFrame ==
    [][\A t \in Threads :
        (/\ th[t].op = "deposit" /\ th[t].pc = "save_write"
         /\ Ends(t) /\ th'[t].result = "ok"
         /\ th[t].pref.st = "json")
        => LET own == sess[th[t].s].account_id
               before == th[t].pref.map
           IN /\ file'.st = "json"
              /\ DOMAIN file'.map = DOMAIN before
              /\ \A id \in DOMAIN before \ {own} : file'.map[id] = before[id]
              /\ own \in DOMAIN before =>
                    \A f \in DOMAIN before[own] \ {"balance", "modified"} :
                        file'.map[own][f] = before[own][f]
      ]_vars

====
